---- MODULE Spec2Model ----
(***************************************************************************)
(* Gestion Locative (src/gestion_locative/app.py): the four tables, the    *)
(* form parsers and validators, and the request handlers that write and    *)
(* read them.                                                              *)
(*                                                                         *)
(* Representation of Python values:                                        *)
(*   - a text field is a sequence of one-character strings, so that        *)
(*     strip(), len(), isdigit() and split('-') are computed;              *)
(*   - a raw numeric or date form field is a string, parsed by the tables  *)
(*     FloatLiteral, IntLiteral and DateLiteral (float(), int(),           *)
(*     strptime()); a string outside the table raises ValueError;          *)
(*   - a parsed float, int or date is [k, v]: k = "none" is None,          *)
(*     k = "nan" is float('nan'), k = "num" is the number v (a date is its *)
(*     day number);                                                        *)
(*   - an optional text (x or None) is <<>> for None and <<s>> otherwise.  *)
(***************************************************************************)
EXTENDS Integers, Sequences, FiniteSets, TLC

\* biens, locataires, paiements, bailleurs: the tables, id -> row.
\* today: date.today().  reponse: the response to the latest request.
\* entree, sortie: the argument and the result of the latest call of a validator
\* checked on its own (the specification SpecValidation), and the receipt
\* request of a behaviour.
VARIABLES biens, locataires, paiements, bailleurs, today, reponse, entree, sortie

vars ==
  <<biens, locataires, paiements, bailleurs, today, reponse, entree, sortie>>

db == <<biens, locataires, paiements, bailleurs>>

\* ------------------------------------------------------------ bounds

MaxBiens == 2

MaxLocataires == 2

MaxPaiements == 2

\* The Tenants and the Payments of SpecChamps and SpecEchec.
MaxChamps == 1

\* ------------------------------------------------------------ values

None == [k |-> "none", v |-> 0]

NaN == [k |-> "nan", v |-> 0]

Num(n) == [k |-> "num", v |-> n]

IsNone(x) == x.k = "none"

\* Python truthiness of an int or None: `not value`.
Falsy(x) == x.k = "none" \/ (x.k = "num" /\ x.v = 0)

\* Python's a < b, a <= b, a > b on floats: False as soon as one side is NaN.
Lt(a, b) == a.k = "num" /\ b.k = "num" /\ a.v < b.v

Le(a, b) == a.k = "num" /\ b.k = "num" /\ a.v <= b.v

Gt(a, b) == a.k = "num" /\ b.k = "num" /\ a.v > b.v

\* x or None, for a text.
OrNone(s) == IF s = <<>> THEN <<>> ELSE <<s>>

Whitespace == {" "}

Digits == {"0", "1", "2", "3", "4", "5", "6", "7", "8", "9"}

RECURSIVE LStrip(_)
LStrip(s) ==
  IF s # <<>> /\ Head(s) \in Whitespace THEN LStrip(Tail(s)) ELSE s

RECURSIVE RStrip(_)
RStrip(s) ==
  IF s # <<>> /\ s[Len(s)] \in Whitespace
  THEN RStrip(SubSeq(s, 1, Len(s) - 1))
  ELSE s

\* str.strip()
Strip(s) == RStrip(LStrip(s))

\* str.isdigit(): non-empty and every character a digit.
IsDigit(s) == s # <<>> /\ \A i \in 1..Len(s) : s[i] \in Digits

\* float(value) for the literals the forms submit; any other string raises.
FloatLiteral ==
  [x \in {"0", "150", "800", "50", "-50", "nan"} |->
     CASE x = "0" -> Num(0)
       [] x = "150" -> Num(150)
       [] x = "800" -> Num(800)
       [] x = "50" -> Num(50)
       [] x = "-50" -> Num(0 - 50)
       [] x = "nan" -> NaN]

\* int(value) for the literals the forms submit; any other string raises.
IntLiteral ==
  [x \in {"0", "1", "2", "3", "5", "20", "28", "29"} |->
     CASE x = "0" -> Num(0)
       [] x = "1" -> Num(1)
       [] x = "2" -> Num(2)
       [] x = "3" -> Num(3)
       [] x = "5" -> Num(5)
       [] x = "20" -> Num(20)
       [] x = "28" -> Num(28)
       [] x = "29" -> Num(29)]

\* datetime.strptime(value, '%Y-%m-%d').date(), as a day number.
DateLiteral ==
  [x \in {"2023-12-31", "2024-01-01", "2024-06-30"} |->
     CASE x = "2023-12-31" -> Num(0)
       [] x = "2024-01-01" -> Num(1)
       [] x = "2024-06-30" -> Num(182)]

_safe_float(value, default) ==
  IF value = "" THEN default
  ELSE IF value \in DOMAIN FloatLiteral THEN FloatLiteral[value]
  ELSE default

_safe_int(value, default) ==
  IF value = "" THEN default
  ELSE IF value \in DOMAIN IntLiteral THEN IntLiteral[value]
  ELSE default

_safe_date(value) ==
  IF value = "" THEN None
  ELSE IF value \in DOMAIN DateLiteral THEN DateLiteral[value]
  ELSE None

\* ------------------------------------------------------------ texts

Txt_Vide == <<>>

Txt_Blanc == <<" ">>

Txt_Dupont == <<"D", "u", "p", "o", "n", "t">>

Txt_Jean == <<" ", "J", "e", "a", "n">>

Txt_ACME == <<"A", "C", "M", "E">>

Txt_Adresse == <<"1", " ", "r", "u", "e">>

\* A well-formed SIRET, one of 13 digits, one of 14 characters with a letter.
Siret_14 == [i \in 1..14 |-> "1"]

Siret_13 == [i \in 1..13 |-> "1"]

Siret_14x == [i \in 1..14 |-> IF i = 14 THEN "A" ELSE "1"]

\* The messages of flash(); accents are dropped.
MsgBienRequis == "Veuillez selectionner un bien."

MsgBienIntrouvable == "Le bien selectionne est introuvable."

MsgRaisonSociale == "La raison sociale est obligatoire pour un local commercial."

MsgSiretRequis == "Le numero SIRET est obligatoire pour un local commercial."

MsgSiretFormat == "Le numero SIRET doit contenir exactement 14 chiffres."

MsgNomPrenom == "Le nom et le prenom sont obligatoires."

MsgDateDebut == "La date de debut de bail est obligatoire."

MsgLoyer == "Le loyer mensuel doit etre un nombre positif."

MsgDepot == "Le depot de garantie ne peut pas etre negatif."

MsgJour == "Le jour de paiement doit etre entre 1 et 28."

MsgDateFin == "La date de fin de bail doit etre posterieure a la date de debut."

MsgLocataireRequis == "Veuillez selectionner un locataire."

MsgMontant == "Le montant doit etre un nombre positif."

MsgDatePaiement == "La date de paiement est obligatoire."

MsgMois == "Le mois concerne est obligatoire."

MsgBienNom == "Le nom du bien est obligatoire."

MsgBienAdresse == "L'adresse est obligatoire."

MsgBienCharges == "Les charges mensuelles ne peuvent pas etre negatives."

MsgErreur == "Erreur lors de l'enregistrement. Verifiez les donnees saisies."

\* ------------------------------------------------------------ parsers

\* The columns surface, description, date_acquisition (Bien), email, telephone,
\* date_naissance, dirigeant (Locataire), mode_paiement, commentaire (Paiement)
\* are copied from the form to the row and read by no rule; they are left out.
_parse_bien_form(form) ==
  [nom |-> Strip(form.nom),
   type_bien |-> form.type_bien,
   adresse |-> Strip(form.adresse),
   charges_mensuelles |-> _safe_float(form.charges_mensuelles, Num(0))]

_parse_locataire_form(form) ==
  [nom |-> Strip(form.nom),
   prenom |-> OrNone(Strip(form.prenom)),
   raison_sociale |-> OrNone(Strip(form.raison_sociale)),
   siret |-> OrNone(Strip(form.siret)),
   bien_id |-> _safe_int(form.bien_id, None),
   date_debut_bail |-> _safe_date(form.date_debut_bail),
   date_fin_bail |-> _safe_date(form.date_fin_bail),
   loyer_mensuel |-> _safe_float(form.loyer_mensuel, None),
   depot_garantie |-> _safe_float(form.depot_garantie, Num(0)),
   jour_paiement |-> _safe_int(form.jour_paiement, Num(1))]

_parse_paiement_form(form) ==
  [locataire_id |-> _safe_int(form.locataire_id, None),
   montant |-> _safe_float(form.montant, None),
   date_paiement |-> _safe_date(form.date_paiement),
   mois_concerne |-> form.mois_concerne,
   categorie |-> form.categorie]

\* ------------------------------------------------------------ validators

\* Bien.query.get(id): the row, when there is one.
BienExiste(table, id) == id.k = "num" /\ id.v \in DOMAIN table

\* The last rule with the comparison left out.
DateFinAvantDebut_jamais(data) == FALSE

\* data['date_fin_bail'] and data['date_debut_bail'] and fin < debut
DateFinAvantDebut(data) ==
  /\ ~IsNone(data.date_fin_bail)
  /\ ~IsNone(data.date_debut_bail)
  /\ Lt(data.date_fin_bail, data.date_debut_bail)

\* The result is <<>> for None and <<message>> otherwise.
_validate_locataire_data(data, table) ==
  IF Falsy(data.bien_id) THEN <<MsgBienRequis>>
  ELSE IF ~BienExiste(table, data.bien_id) THEN <<MsgBienIntrouvable>>
  ELSE IF table[data.bien_id.v].type_bien = "local_commercial"
          /\ data.raison_sociale = <<>>
    THEN <<MsgRaisonSociale>>
  ELSE IF table[data.bien_id.v].type_bien = "local_commercial"
          /\ data.siret = <<>>
    THEN <<MsgSiretRequis>>
  ELSE IF table[data.bien_id.v].type_bien = "local_commercial"
          /\ (Len(data.siret[1]) # 14 \/ ~IsDigit(data.siret[1]))
    THEN <<MsgSiretFormat>>
  ELSE IF table[data.bien_id.v].type_bien # "local_commercial"
          /\ (data.nom = <<>> \/ data.prenom = <<>>)
    THEN <<MsgNomPrenom>>
  ELSE IF IsNone(data.date_debut_bail) THEN <<MsgDateDebut>>
  ELSE IF IsNone(data.loyer_mensuel) \/ Lt(data.loyer_mensuel, Num(0))
    THEN <<MsgLoyer>>
  ELSE IF ~IsNone(data.depot_garantie) /\ Lt(data.depot_garantie, Num(0))
    THEN <<MsgDepot>>
  ELSE IF ~IsNone(data.jour_paiement)
          /\ (Lt(data.jour_paiement, Num(1)) \/ Gt(data.jour_paiement, Num(28)))
    THEN <<MsgJour>>
  ELSE IF DateFinAvantDebut(data) THEN <<MsgDateFin>>
  ELSE <<>>

_validate_paiement_data(data) ==
  IF Falsy(data.locataire_id) THEN <<MsgLocataireRequis>>
  ELSE IF IsNone(data.montant) \/ Le(data.montant, Num(0)) THEN <<MsgMontant>>
  ELSE IF IsNone(data.date_paiement) THEN <<MsgDatePaiement>>
  ELSE IF data.mois_concerne = <<>> THEN <<MsgMois>>
  ELSE <<>>

\* The inline checks of ajouter_bien and modifier_bien.
ValidateBien(data) ==
  IF data.nom = <<>> THEN <<MsgBienNom>>
  ELSE IF data.adresse = <<>> THEN <<MsgBienAdresse>>
  ELSE IF ~IsNone(data.charges_mensuelles)
          /\ Lt(data.charges_mensuelles, Num(0))
    THEN <<MsgBienCharges>>
  ELSE <<>>

MsgSuppression(quoi) ==
  CASE quoi = "bien" -> "Erreur lors de la suppression du bien."
    [] quoi = "locataire" -> "Erreur lors de la suppression du locataire."
    [] quoi = "paiement" -> "Erreur lors de la suppression du paiement."

MsgParametresRequis == "Le nom et l'adresse sont obligatoires."

MsgParametresErreur == "Erreur lors de l'enregistrement des parametres."

\* ------------------------------------------------------------ storage

\* SQLite's INTEGER PRIMARY KEY of a new row: one more than the largest id.
RECURSIVE MaxOf(_)
MaxOf(S) ==
  IF S = {} THEN 0
  ELSE LET x == CHOOSE y \in S : TRUE
           m == MaxOf(S \ {x})
       IN IF x > m THEN x ELSE m

NextId(table) == MaxOf(DOMAIN table) + 1

Restrict(table, ids) == [id \in ids |-> table[id]]

Insert(table, row) ==
  [id \in DOMAIN table \cup {NextId(table)} |->
     IF id \in DOMAIN table THEN table[id] ELSE row]

\* A Float column as SQLite stores it: NaN is bound as NULL.
SqlFloat(x) == IF x.k = "nan" THEN None ELSE x

\* Bien(**data) / setattr: the row the commit writes.
BienRow(data) ==
  [nom |-> data.nom,
   type_bien |-> data.type_bien,
   adresse |-> data.adresse,
   charges_mensuelles |-> SqlFloat(data.charges_mensuelles)]

LocataireRow(data, actif) ==
  [nom |-> data.nom,
   prenom |-> data.prenom,
   raison_sociale |-> data.raison_sociale,
   siret |-> data.siret,
   bien_id |-> data.bien_id,
   date_debut_bail |-> data.date_debut_bail,
   date_fin_bail |-> data.date_fin_bail,
   loyer_mensuel |-> SqlFloat(data.loyer_mensuel),
   depot_garantie |-> SqlFloat(data.depot_garantie),
   jour_paiement |-> data.jour_paiement,
   actif |-> actif]

PaiementRow(data) ==
  [locataire_id |-> data.locataire_id,
   montant |-> SqlFloat(data.montant),
   date_paiement |-> data.date_paiement,
   mois_concerne |-> data.mois_concerne,
   categorie |-> data.categorie]

\* nullable=False: the commit raises IntegrityError on a NULL in these columns.
\* (SQLite checks no foreign key unless PRAGMA foreign_keys is set, and the
\* application never sets it.)
LocataireNotNull(row) ==
  /\ ~IsNone(row.bien_id)
  /\ ~IsNone(row.date_debut_bail)
  /\ ~IsNone(row.loyer_mensuel)

PaiementNotNull(row) ==
  /\ ~IsNone(row.locataire_id)
  /\ ~IsNone(row.montant)
  /\ ~IsNone(row.date_paiement)

\* The init_db demonstration rows.
DemoBiens ==
  [id \in {1, 2} |->
     IF id = 1
     THEN [nom |-> <<"A", "p", "p", "t">>, type_bien |-> "appartement",
           adresse |-> <<"1", "2", " ", "r", "u", "e">>,
           charges_mensuelles |-> Num(150)]
     ELSE [nom |-> <<"L", "o", "c", "a", "l">>, type_bien |-> "local_commercial",
           adresse |-> <<"4", "5", " ", "a", "v">>,
           charges_mensuelles |-> Num(200)]]

EmptyTable == [id \in {} |-> 0]

\* ------------------------------------------------------------ responses

Rendu(flash) == [statut |-> 200, flash |-> flash, vue |-> <<>>]

Redirection(flash) == [statut |-> 302, flash |-> flash, vue |-> <<>>]

NotFound == [statut |-> 404, flash |-> "", vue |-> <<>>]

ServerError == [statut |-> 500, flash |-> "", vue |-> <<>>]

\* ------------------------------------------------------------ biens

ajouter_bien(form, panne) ==
  LET data == _parse_bien_form(form)
      erreur == ValidateBien(data)
  IN IF erreur # <<>>
     THEN reponse' = Rendu(erreur[1]) /\ UNCHANGED db
     ELSE IF panne
     THEN reponse' = Rendu(MsgErreur) /\ UNCHANGED db
     ELSE /\ biens' = Insert(biens, BienRow(data))
          /\ reponse' = Redirection("Bien ajoute avec succes !")
          /\ UNCHANGED <<locataires, paiements, bailleurs>>

modifier_bien(id, form, panne) ==
  LET data == _parse_bien_form(form)
      erreur == ValidateBien(data)
  IN IF id \notin DOMAIN biens
     THEN reponse' = NotFound /\ UNCHANGED db
     ELSE IF erreur # <<>>
     THEN reponse' = Rendu(erreur[1]) /\ UNCHANGED db
     ELSE IF panne
     THEN reponse' = Rendu(MsgErreur) /\ UNCHANGED db
     ELSE /\ biens' = [biens EXCEPT ![id] = BienRow(data)]
          /\ reponse' = Redirection("Bien modifie avec succes !")
          /\ UNCHANGED <<locataires, paiements, bailleurs>>

\* The rows a delete of Bien id takes with it (cascade='all, delete-orphan').
LocatairesDuBien(id) ==
  {l \in DOMAIN locataires : locataires[l].bien_id = Num(id)}

PaiementsDesLocataires(ids) ==
  {p \in DOMAIN paiements :
     \E l \in ids : paiements[p].locataire_id = Num(l)}

\* supprimer_bien with the tenants removed and their payments left behind.
supprimer_bien_sans_cascade(id, panne) ==
  IF id \notin DOMAIN biens
  THEN reponse' = NotFound /\ UNCHANGED db
  ELSE IF panne
  THEN reponse' = Redirection(MsgSuppression("bien")) /\ UNCHANGED db
  ELSE /\ biens' = Restrict(biens, DOMAIN biens \ {id})
       /\ locataires' =
            Restrict(locataires, DOMAIN locataires \ LocatairesDuBien(id))
       /\ reponse' = Redirection("Bien supprime avec succes !")
       /\ UNCHANGED <<paiements, bailleurs>>

supprimer_bien(id, panne) ==
  IF id \notin DOMAIN biens
  THEN reponse' = NotFound /\ UNCHANGED db
  ELSE IF panne
  THEN reponse' = Redirection(MsgSuppression("bien")) /\ UNCHANGED db
  ELSE /\ biens' = Restrict(biens, DOMAIN biens \ {id})
       /\ locataires' =
            Restrict(locataires, DOMAIN locataires \ LocatairesDuBien(id))
       /\ paiements' =
            Restrict(paiements,
                     DOMAIN paiements
                       \ PaiementsDesLocataires(LocatairesDuBien(id)))
       /\ reponse' = Redirection("Bien supprime avec succes !")
       /\ UNCHANGED bailleurs

\* ------------------------------------------------------------ locataires

ajouter_locataire(form, panne) ==
  LET data == _parse_locataire_form(form)
      erreur == _validate_locataire_data(data, biens)
      row == LocataireRow(data, TRUE)
  IN IF erreur # <<>>
     THEN reponse' = Rendu(erreur[1]) /\ UNCHANGED db
     ELSE IF panne \/ ~LocataireNotNull(row)
     THEN reponse' = Rendu(MsgErreur) /\ UNCHANGED db
     ELSE /\ locataires' = Insert(locataires, row)
          /\ reponse' = Redirection("Locataire ajoute avec succes !")
          /\ UNCHANGED <<biens, paiements, bailleurs>>

\* modifier_locataire with no rollback: a failed commit leaves the setattr writes.
modifier_locataire_sans_rollback(id, form, panne) ==
  LET data == _parse_locataire_form(form)
      erreur == _validate_locataire_data(data, biens)
      row == LocataireRow(data, form.actif)
  IN IF id \notin DOMAIN locataires
     THEN reponse' = NotFound /\ UNCHANGED db
     ELSE IF erreur # <<>>
     THEN reponse' = Rendu(erreur[1]) /\ UNCHANGED db
     ELSE /\ locataires' = [locataires EXCEPT ![id] = row]
          /\ reponse' =
               IF panne \/ ~LocataireNotNull(row)
               THEN Rendu(MsgErreur)
               ELSE Redirection("Locataire modifie avec succes !")
          /\ UNCHANGED <<biens, paiements, bailleurs>>

modifier_locataire(id, form, panne) ==
  LET data == _parse_locataire_form(form)
      erreur == _validate_locataire_data(data, biens)
      row == LocataireRow(data, form.actif)
  IN IF id \notin DOMAIN locataires
     THEN reponse' = NotFound /\ UNCHANGED db
     ELSE IF erreur # <<>>
     THEN reponse' = Rendu(erreur[1]) /\ UNCHANGED db
     ELSE IF panne \/ ~LocataireNotNull(row)
     THEN reponse' = Rendu(MsgErreur) /\ UNCHANGED db
     ELSE /\ locataires' = [locataires EXCEPT ![id] = row]
          /\ reponse' = Redirection("Locataire modifie avec succes !")
          /\ UNCHANGED <<biens, paiements, bailleurs>>

supprimer_locataire(id, panne) ==
  IF id \notin DOMAIN locataires
  THEN reponse' = NotFound /\ UNCHANGED db
  ELSE IF panne
  THEN reponse' = Redirection(MsgSuppression("locataire")) /\ UNCHANGED db
  ELSE /\ locataires' = Restrict(locataires, DOMAIN locataires \ {id})
       /\ paiements' =
            Restrict(paiements,
                     DOMAIN paiements \ PaiementsDesLocataires({id}))
       /\ reponse' = Redirection("Locataire supprime avec succes !")
       /\ UNCHANGED <<biens, bailleurs>>

\* ------------------------------------------------------------ paiements

ajouter_paiement(form, panne) ==
  LET data == _parse_paiement_form(form)
      erreur == _validate_paiement_data(data)
      row == PaiementRow(data)
  IN IF erreur # <<>>
     THEN reponse' = Rendu(erreur[1]) /\ UNCHANGED db
     ELSE IF panne \/ ~PaiementNotNull(row)
     THEN reponse' = Rendu(MsgErreur) /\ UNCHANGED db
     ELSE /\ paiements' = Insert(paiements, row)
          /\ reponse' = Redirection("Paiement enregistre avec succes !")
          /\ UNCHANGED <<biens, locataires, bailleurs>>

modifier_paiement(id, form, panne) ==
  LET data == _parse_paiement_form(form)
      erreur == _validate_paiement_data(data)
      row == PaiementRow(data)
  IN IF id \notin DOMAIN paiements
     THEN reponse' = NotFound /\ UNCHANGED db
     ELSE IF erreur # <<>>
     THEN reponse' = Rendu(erreur[1]) /\ UNCHANGED db
     ELSE IF panne \/ ~PaiementNotNull(row)
     THEN reponse' = Rendu(MsgErreur) /\ UNCHANGED db
     ELSE /\ paiements' = [paiements EXCEPT ![id] = row]
          /\ reponse' = Redirection("Paiement modifie avec succes !")
          /\ UNCHANGED <<biens, locataires, bailleurs>>

supprimer_paiement(id, panne) ==
  IF id \notin DOMAIN paiements
  THEN reponse' = NotFound /\ UNCHANGED db
  ELSE IF panne
  THEN reponse' = Redirection(MsgSuppression("paiement")) /\ UNCHANGED db
  ELSE /\ paiements' = Restrict(paiements, DOMAIN paiements \ {id})
       /\ reponse' = Redirection("Paiement supprime avec succes !")
       /\ UNCHANGED <<biens, locataires, bailleurs>>

\* ------------------------------------------------------------ parametres

\* Bailleur.query.first(): the row of smallest id, or none.
BailleurFirst ==
  IF DOMAIN bailleurs = {} THEN 0
  ELSE CHOOSE id \in DOMAIN bailleurs : \A o \in DOMAIN bailleurs : id <= o

\* parametres without the test of `if bailleur`: a row is added every time.
parametres_ajoute_toujours(form, panne) ==
  LET nom == Strip(form.nom)
      adresse == Strip(form.adresse)
      fields == [nom |-> nom, adresse |-> adresse, ville |-> form.ville]
  IN IF nom = <<>> \/ adresse = <<>>
     THEN reponse' = Rendu(MsgParametresRequis) /\ UNCHANGED db
     ELSE IF panne
     THEN reponse' = Rendu(MsgParametresErreur) /\ UNCHANGED db
     ELSE /\ bailleurs' = Insert(bailleurs, fields)
          /\ reponse' = Redirection("Parametres enregistres avec succes !")
          /\ UNCHANGED <<biens, locataires, paiements>>

\* The columns code_postal, ville, telephone, email and siret are copied like
\* adresse and read by no rule; ville stands for them.
parametres(form, panne) ==
  LET nom == Strip(form.nom)
      adresse == Strip(form.adresse)
      fields == [nom |-> nom, adresse |-> adresse, ville |-> form.ville]
  IN IF nom = <<>> \/ adresse = <<>>
     THEN reponse' = Rendu(MsgParametresRequis) /\ UNCHANGED db
     ELSE IF panne
     THEN reponse' = Rendu(MsgParametresErreur) /\ UNCHANGED db
     ELSE /\ bailleurs' =
               IF BailleurFirst # 0
               THEN [bailleurs EXCEPT ![BailleurFirst] = fields]
               ELSE Insert(bailleurs, fields)
          /\ reponse' = Redirection("Parametres enregistres avec succes !")
          /\ UNCHANGED <<biens, locataires, paiements>>

\* ------------------------------------------------------------ dashboard

DigitChar == <<"0", "1", "2", "3", "4", "5", "6", "7", "8", "9">>

Pad2(n) == <<DigitChar[((n \div 10) % 10) + 1], DigitChar[(n % 10) + 1]>>

Pad4(n) == Pad2(n \div 100) \o Pad2(n % 100)

\* date.strftime('%Y-%m')
Strftime_Ym(d) == Pad4(d.annee) \o <<"-">> \o Pad2(d.mois)

\* float + float, and the TypeError of float + None.
Plus(a, b) ==
  IF a.k = "num" /\ b.k = "num" THEN Num(a.v + b.v)
  ELSE [k |-> "TypeError", v |-> 0]

\* loyer_total without the charges of the Property.
loyer_total_sans_charges(loc) == Plus(loc.loyer_mensuel, Num(0))

\* Locataire.loyer_total
loyer_total(loc) ==
  LET charges ==
        IF BienExiste(biens, loc.bien_id)
        THEN biens[loc.bien_id.v].charges_mensuelles
        ELSE Num(0)
  IN Plus(loc.loyer_mensuel, charges)

\* sum(...) of the values val[id], taken in id order.
RECURSIVE SumOver(_, _)
SumOver(val, ids) ==
  IF ids = {} THEN Num(0)
  ELSE LET id == CHOOSE x \in ids : \A y \in ids : x >= y
       IN Plus(SumOver(val, ids \ {id}), val[id])

\* Locataire.query.filter_by(actif=True)
LocatairesActifs == {l \in DOMAIN locataires : locataires[l].actif}

\* Locataire.paiements
PaiementsDe(l) ==
  {p \in DOMAIN paiements : paiements[p].locataire_id = Num(l)}

\* EnRetard with >= for >: late on the due day itself.
EnRetard_des_le_jour(l, mois_actuel) ==
  /\ ~\E p \in PaiementsDe(l) : paiements[p].mois_concerne = mois_actuel
  /\ ~Lt(Num(today.jour), locataires[l].jour_paiement)

EnRetard(l, mois_actuel) ==
  /\ ~\E p \in PaiementsDe(l) : paiements[p].mois_concerne = mois_actuel
  /\ Gt(Num(today.jour), locataires[l].jour_paiement)

index ==
  LET revenus_mensuels == 
        SumOver([l \in LocatairesActifs |-> loyer_total(locataires[l])],
                LocatairesActifs)
      mois_actuel == Strftime_Ym(today)
      paiements_mois ==
        {p \in DOMAIN paiements : paiements[p].mois_concerne = mois_actuel}
      total_percu == 
        SumOver([p \in paiements_mois |-> paiements[p].montant],
                paiements_mois)
      loyers_en_retard == {l \in LocatairesActifs : EnRetard(l, mois_actuel)}
  IN /\ reponse' =
          IF revenus_mensuels.k # "num" THEN ServerError
          ELSE [statut |-> 200, flash |-> "",
                vue |-> <<[page |-> "index.html",
                           locataires_actifs |-> LocatairesActifs,
                           revenus_mensuels |-> revenus_mensuels.v,
                           total_percu |-> total_percu.v,
                           loyers_en_retard |-> loyers_en_retard,
                           mois_actuel |-> mois_actuel]>>]
     /\ UNCHANGED db

\* The days on which requests arrive, in order.
Calendrier ==
  <<[annee |-> 2024, mois |-> 3, jour |-> 5],
    [annee |-> 2024, mois |-> 3, jour |-> 20],
    [annee |-> 2024, mois |-> 4, jour |-> 2]>>

\* ------------------------------------------------------------ statistiques

\* The constants MOIS_NOMS and MOIS_NOMS_COURTS: Python's index m is m + 1
\* here; accents are dropped.
MOIS_NOMS ==
  <<"", "Janvier", "Fevrier", "Mars", "Avril", "Mai", "Juin", "Juillet",
    "Aout", "Septembre", "Octobre", "Novembre", "Decembre">>

MOIS_NOMS_COURTS ==
  <<"", "Jan", "Fev", "Mar", "Avr", "Mai", "Jun", "Jul", "Aou", "Sep", "Oct",
    "Nov", "Dec">>

\* str(n) of an int n >= 0.
RECURSIVE IntStr(_)
IntStr(n) ==
  IF n < 10 THEN <<DigitChar[n + 1]>>
  ELSE IntStr(n \div 10) \o <<DigitChar[(n % 10) + 1]>>

\* calendar.monthrange(y, m)[1]
JoursDuMois(y, m) ==
  IF m = 2
  THEN IF (y % 4 = 0 /\ y % 100 # 0) \/ y % 400 = 0 THEN 29 ELSE 28
  ELSE IF m \in {4, 6, 9, 11} THEN 30 ELSE 31

\* d - relativedelta(months=n), n >= 0: relativedelta normalises n months to
\* n // 12 years and n % 12 months, moves the year and the month, and clips the
\* day to the length of the month it lands in.
MoinsMois(d, n) ==
  LET years == n \div 12
      months == n % 12
      m0 == d.mois - months
      y == IF m0 < 1 THEN d.annee - years - 1 ELSE d.annee - years
      m == IF m0 < 1 THEN m0 + 12 ELSE m0
      j == IF d.jour < JoursDuMois(y, m) THEN d.jour ELSE JoursDuMois(y, m)
  IN [annee |-> y, mois |-> m, jour |-> j]

\* The order of SQLite's BINARY collation on the characters of the tokens.
CharCode(c) ==
  CASE c = " " -> 32
    [] c = "-" -> 45
    [] c = "/" -> 47
    [] c \in Digits -> 48 + (CHOOSE i \in 0..9 : DigitChar[i + 1] = c)
    [] OTHER -> 120

\* a >= b on two TEXT values.
RECURSIVE TextGe(_, _)
TextGe(a, b) ==
  IF b = <<>> THEN TRUE
  ELSE IF a = <<>> THEN FALSE
  ELSE IF CharCode(Head(a)) # CharCode(Head(b))
  THEN CharCode(Head(a)) > CharCode(Head(b))
  ELSE TextGe(Tail(a), Tail(b))

\* func.sum(Paiement.montant) over the rows ids: NULL amounts are skipped, and
\* the sum of no amount is NULL.
RECURSIVE SqlSum(_)
SqlSum(ids) ==
  LET comptes == {p \in ids : ~IsNone(paiements[p].montant)}
  IN IF comptes = {} THEN None
     ELSE LET p == CHOOSE x \in comptes : TRUE
              reste == SqlSum(comptes \ {p})
          IN Num(paiements[p].montant.v + (IF IsNone(reste) THEN 0 ELSE reste.v))

\* x or 0
OrZero(x) == IF Falsy(x) THEN 0 ELSE x.v

\* revenus_dict.get(mois_str, 0) or 0: the groups of the query are the tokens
\* >= mois_min.
RevenusDuMois(mois_str, mois_min) ==
  LET groupe ==
        {p \in DOMAIN paiements :
           /\ TextGe(paiements[p].mois_concerne, mois_min)
           /\ paiements[p].mois_concerne = mois_str}
  IN IF groupe = {} THEN 0 ELSE OrZero(SqlSum(groupe))

\* The entry of the series for i months ago.
EntreeDuMois(i, mois_min) ==
  LET mois_date == MoinsMois(today, i)
  IN [mois |-> <<MOIS_NOMS_COURTS[mois_date.mois + 1], " ">>
                 \o IntStr(mois_date.annee),
      total |-> RevenusDuMois(Strftime_Ym(mois_date), mois_min)]

\* The series read from range(12, 0, -1): it ends at the month before.
SerieDesRevenus_decalee(mois_min) ==
  [k \in 1..12 |-> EntreeDuMois(13 - k, mois_min)]

\* for i in range(11, -1, -1): revenus_mensuels.append(...)
SerieDesRevenus(mois_min) ==
  [k \in 1..12 |-> EntreeDuMois(12 - k, mois_min)]

\* Every Tenant of the Property, active or not.
CandidatsActuels_tous(b) ==
  {l \in DOMAIN locataires : locataires[l].bien_id = Num(b)}

\* The Tenants that Bien.locataire_actuel can return: the loop returns the
\* first active Tenant of bien.locataires, a list loaded by a query without
\* ORDER BY, so that any active Tenant of the Property can come first.
CandidatsActuels(b) ==
  {l \in DOMAIN locataires :
     locataires[l].bien_id = Num(b) /\ locataires[l].actif}

\* The results Bien.locataire_actuel can give for every Property; 0 is None.
LocatairesActuels ==
  {f \in [DOMAIN biens -> {0} \cup DOMAIN locataires] :
     \A b \in DOMAIN biens :
       IF CandidatsActuels(b) = {} THEN f[b] = 0
       ELSE f[b] \in CandidatsActuels(b)}

\* totaux_par_locataire.get(locataire.id, 0) or 0 if locataire else 0
TotalPercu(l) ==
  IF l = 0 \/ PaiementsDe(l) = {} THEN 0 ELSE OrZero(SqlSum(PaiementsDe(l)))

\* actuel: what locataire_actuel returned for each Property.
statistiques(actuel) ==
  LET mois_min == Strftime_Ym(MoinsMois(today, 12))
  IN /\ reponse' =
          [statut |-> 200, flash |-> "",
           vue |-> <<[page |-> "statistiques.html",
                      revenus_mensuels |-> SerieDesRevenus(mois_min),
                      biens_stats |->
                        [b \in DOMAIN biens |->
                           [locataire |-> actuel[b],
                            total_percu |-> TotalPercu(actuel[b])]]]>>]
     /\ UNCHANGED db

\* ------------------------------------------------------------ quittances

MsgFormatMois == "Format de mois invalide."

\* str.split(sep): the parts between the occurrences of the character sep.
RECURSIVE Split(_, _)
Split(s, sep) ==
  IF \A i \in 1..Len(s) : s[i] # sep THEN <<s>>
  ELSE LET i == CHOOSE j \in 1..Len(s) :
                  s[j] = sep /\ \A k \in 1..(j - 1) : s[k] # sep
       IN <<SubSeq(s, 1, i - 1)>> \o Split(SubSeq(s, i + 1, Len(s)), sep)

\* The value of the digits of s, the underscores skipped.
RECURSIVE DigitsValue(_)
DigitsValue(s) ==
  IF s = <<>> THEN 0
  ELSE IF s[Len(s)] = "_" THEN DigitsValue(SubSeq(s, 1, Len(s) - 1))
  ELSE 10 * DigitsValue(SubSeq(s, 1, Len(s) - 1))
         + (CHOOSE d \in 0..9 : DigitChar[d + 1] = s[Len(s)])

\* int(s) of a str: blanks around are stripped, a sign may come first, and the
\* digits may be grouped by single underscores; anything else raises
\* ValueError, which is None here.
PyInt(s) ==
  LET t == Strip(s)
      signe == t # <<>> /\ Head(t) \in {"+", "-"}
      corps == IF signe THEN Tail(t) ELSE t
      bien_forme ==
        /\ corps # <<>>
        /\ \A i \in 1..Len(corps) : corps[i] \in Digits \cup {"_"}
        /\ corps[1] # "_"
        /\ corps[Len(corps)] # "_"
        /\ \A i \in 1..(Len(corps) - 1) : ~(corps[i] = "_" /\ corps[i + 1] = "_")
  IN IF ~bien_forme THEN None
     ELSE IF signe /\ Head(t) = "-" THEN Num(0 - DigitsValue(corps))
     ELSE Num(DigitsValue(corps))

\* The try block without the check of the number of parts: the parts after
\* the second are not read.
ParseMois_sans_longueur(mois) ==
  LET parts == Split(mois, "-")
  IN IF Len(parts) < 2 THEN <<>>
     ELSE IF IsNone(PyInt(parts[2])) \/ IsNone(PyInt(parts[1])) THEN <<>>
     ELSE IF PyInt(parts[2]).v < 1 \/ PyInt(parts[2]).v > 12 THEN <<>>
     ELSE <<parts[1], PyInt(parts[2]).v>>

\* The try block of generer_quittance: <<annee, mois_num>>, or <<>> when it
\* raises ValueError.
ParseMois(mois) ==
  LET parts == Split(mois, "-")
  IN IF Len(parts) # 2 THEN <<>>
     ELSE LET annee == parts[1]
              mois_num == PyInt(parts[2])
          IN IF IsNone(mois_num) THEN <<>>
             ELSE IF IsNone(PyInt(annee)) THEN <<>>
             ELSE IF mois_num.v < 1 \/ mois_num.v > 12 THEN <<>>
             ELSE <<annee, mois_num.v>>

\* Paiement.query.filter_by(locataire_id=locataire_id, mois_concerne=mois), with
\* the month left out of the filter.
PaiementsDuMois_tous(locataire_id, mois) ==
  {p \in DOMAIN paiements : paiements[p].locataire_id = Num(locataire_id)}

\* Paiement.query.filter_by(locataire_id=locataire_id, mois_concerne=mois)
PaiementsDuMois(locataire_id, mois) ==
  {p \in DOMAIN paiements :
     /\ paiements[p].locataire_id = Num(locataire_id)
     /\ paiements[p].mois_concerne = mois}

\* paiements_par_categorie: a key for each category of a fetched Payment, and
\* under it the Payments of that category.
ParCategorie(ids) ==
  [c \in {paiements[p].categorie : p \in ids} |->
     {p \in ids : paiements[p].categorie = c}]

\* The route /quittances/generer/<int:locataire_id>/<mois>: the string
\* converter of <mois> takes a non-empty segment without a slash.
generer_quittance(locataire_id, mois) ==
  LET parse == ParseMois(mois)
      fetched == PaiementsDuMois(locataire_id, mois)
      total_paiements ==
        SumOver([p \in fetched |-> paiements[p].montant], fetched)
  IN /\ reponse' =
          IF mois = <<>> \/ \E i \in 1..Len(mois) : mois[i] = "/"
          THEN NotFound
          ELSE IF locataire_id \notin DOMAIN locataires THEN NotFound
          ELSE IF parse = <<>> THEN Redirection(MsgFormatMois)
          ELSE IF total_paiements.k # "num" THEN ServerError
          ELSE [statut |-> 200, flash |-> "",
                vue |-> <<[page |-> "quittances/quittance.html",
                           locataire |-> locataire_id,
                           bailleur |-> BailleurFirst,
                           paiements |-> fetched,
                           paiements_par_categorie |-> ParCategorie(fetched),
                           total_paiements |-> total_paiements.v,
                           mois |-> mois,
                           mois_nom |-> MOIS_NOMS[parse[2] + 1],
                           annee |-> parse[1]]>>]
     /\ UNCHANGED db

\* Last days of a month on which requests arrive: a 31st whose months before
\* are shorter, the end of a year and the start of the next.
FinsDeMois ==
  <<[annee |-> 2024, mois |-> 3, jour |-> 31],
    [annee |-> 2024, mois |-> 12, jour |-> 31],
    [annee |-> 2025, mois |-> 1, jour |-> 31]>>

\* ------------------------------------------------------------ forms

Tok_2024_03 == <<"2", "0", "2", "4", "-", "0", "3">>

Tok_2024_04 == <<"2", "0", "2", "4", "-", "0", "4">>

Tok_2023_03 == <<"2", "0", "2", "3", "-", "0", "3">>

Tok_2023_04 == <<"2", "0", "2", "3", "-", "0", "4">>

Tok_2024_12 == <<"2", "0", "2", "4", "-", "1", "2">>

\* Tokens that are no YYYY-MM: no month, month 13, month 0, a third part, a
\* month and a year that are no numbers, a month without its leading zero.
Tok_2024 == <<"2", "0", "2", "4">>

Tok_2024_13 == <<"2", "0", "2", "4", "-", "1", "3">>

Tok_2024_00 == <<"2", "0", "2", "4", "-", "0", "0">>

Tok_2024_03_05 == <<"2", "0", "2", "4", "-", "0", "3", "-", "0", "5">>

Tok_2024_xx == <<"2", "0", "2", "4", "-", "x", "x">>

Tok_xx_03 == <<"x", "x", "-", "0", "3">>

Tok_2024_3 == <<"2", "0", "2", "4", "-", "3">>

\* Tokens with an empty part, and tokens int() reads although they are not
\* plain digits: a sign and a blank, an underscore between digits.
Tok_2024_vide == <<"2", "0", "2", "4", "-">>

Tok_vide_03 == <<"-", "0", "3">>

Tok_signe == <<"+", "2", "0", "2", "4", "-", " ", "3">>

Tok_souligne == <<"2", "0", "2", "4", "-", "1", "_", "2">>

Tok_souligne_fin == <<"2", "0", "2", "4", "-", "1", "_">>

\* Tokens the route does not take: empty, and with a slash.
Tok_slash == <<"0", "3", "/", "2", "0", "2", "4">>

BienFormBase ==
  [nom |-> <<"T", "2">>, type_bien |-> "appartement",
   adresse |-> Txt_Adresse, charges_mensuelles |-> "150"]

LocataireFormBase ==
  [nom |-> Txt_Dupont, prenom |-> Txt_Jean, raison_sociale |-> Txt_ACME,
   siret |-> Siret_14, bien_id |-> "1", date_debut_bail |-> "2024-01-01",
   date_fin_bail |-> "", loyer_mensuel |-> "800", depot_garantie |-> "",
   jour_paiement |-> "5", actif |-> TRUE]

PaiementFormBase ==
  [locataire_id |-> "1", montant |-> "50", date_paiement |-> "2024-01-01",
   mois_concerne |-> Tok_2024_03, categorie |-> "loyer"]

BailleurFormBase ==
  [nom |-> Txt_Dupont, adresse |-> Txt_Adresse, ville |-> <<"P", "a", "u">>]

\* The forms of Spec: the ids and the references vary, and the values that make
\* a validation or a commit fail.
BailleurForms ==
  {BailleurFormBase, [BailleurFormBase EXCEPT !.nom = Txt_Blanc]}

BienForms ==
  {[BienFormBase EXCEPT !.nom = n, !.charges_mensuelles = c] :
     n \in {Txt_Blanc, <<"T", "2">>}, c \in {"0", "-50"}}

LocataireForms ==
  {[LocataireFormBase EXCEPT !.bien_id = b, !.loyer_mensuel = l] :
     b \in {"", "1", "2", "3"}, l \in {"800", "nan"}}

PaiementForms ==
  {[PaiementFormBase EXCEPT !.locataire_id = l, !.montant = m] :
     l \in {"", "1", "2", "3"}, m \in {"50", "-50", "nan"}}

\* ------------------------------------------------------------ requests

NoCall == [fonction |-> "", form |-> <<>>]

NoResult == [fait |-> FALSE, erreur |-> <<>>]

Init ==
  /\ biens = DemoBiens
  /\ locataires = EmptyTable
  /\ paiements = EmptyTable
  /\ bailleurs = EmptyTable
  /\ today = Calendrier[1]
  /\ reponse = Rendu("")
  /\ entree = NoCall
  /\ sortie = NoResult

AjouterBien(forms, max) ==
  \E form \in forms, panne \in BOOLEAN :
    /\ NextId(biens) <= max
    /\ ajouter_bien(form, panne)
    /\ UNCHANGED <<today, entree, sortie>>

ModifierBien(forms, max) ==
  \E id \in 1..max, form \in forms, panne \in BOOLEAN :
    /\ modifier_bien(id, form, panne)
    /\ UNCHANGED <<today, entree, sortie>>

SupprimerBien(max) ==
  \E id \in 1..max, panne \in BOOLEAN :
    /\ supprimer_bien(id, panne)
    /\ UNCHANGED <<today, entree, sortie>>

AjouterLocataire(forms, max) ==
  \E form \in forms, panne \in BOOLEAN :
    /\ NextId(locataires) <= max
    /\ ajouter_locataire(form, panne)
    /\ UNCHANGED <<today, entree, sortie>>

ModifierLocataire(forms, max) ==
  \E id \in 1..max, form \in forms, panne \in BOOLEAN :
    /\ modifier_locataire(id, form, panne)
    /\ UNCHANGED <<today, entree, sortie>>

SupprimerLocataire(max) ==
  \E id \in 1..max, panne \in BOOLEAN :
    /\ supprimer_locataire(id, panne)
    /\ UNCHANGED <<today, entree, sortie>>

AjouterPaiement(forms, max) ==
  \E form \in forms, panne \in BOOLEAN :
    /\ NextId(paiements) <= max
    /\ ajouter_paiement(form, panne)
    /\ UNCHANGED <<today, entree, sortie>>

ModifierPaiement(forms, max) ==
  \E id \in 1..max, form \in forms, panne \in BOOLEAN :
    /\ modifier_paiement(id, form, panne)
    /\ UNCHANGED <<today, entree, sortie>>

SupprimerPaiement(max) ==
  \E id \in 1..max, panne \in BOOLEAN :
    /\ supprimer_paiement(id, panne)
    /\ UNCHANGED <<today, entree, sortie>>

Parametres(forms) ==
  \E form \in forms, panne \in BOOLEAN :
    /\ parametres(form, panne)
    /\ UNCHANGED <<today, entree, sortie>>

\* A settings submission, kept in entree.
SoumettreParametres(forms) ==
  \E form \in forms, panne \in BOOLEAN :
    /\ parametres(form, panne)
    /\ entree' = [fonction |-> "parametres", form |-> form]
    /\ UNCHANGED <<today, sortie>>

Index ==
  /\ index
  /\ UNCHANGED <<today, entree, sortie>>

Statistiques ==
  \E actuel \in LocatairesActuels :
    /\ statistiques(actuel)
    /\ UNCHANGED <<today, entree, sortie>>

\* One receipt is asked for in a behaviour, at any time: entree keeps the
\* request and sortie that it was served.
GenererQuittance(tokens, max) ==
  \E locataire_id \in 1..max, mois \in tokens :
    /\ ~sortie.fait
    /\ generer_quittance(locataire_id, mois)
    /\ entree' = [fonction |-> "generer_quittance",
                  form |-> [locataire_id |-> locataire_id, mois |-> mois]]
    /\ sortie' = [fait |-> TRUE, erreur |-> <<>>]
    /\ UNCHANGED today

\* d is a day before e.
Avant(d, e) ==
  \/ d.annee < e.annee
  \/ d.annee = e.annee /\ d.mois < e.mois
  \/ d.annee = e.annee /\ d.mois = e.mois /\ d.jour < e.jour

\* Months pass: the next request arrives on a later last day of a month.
AvancerMois ==
  /\ \E i \in 1..Len(FinsDeMois) :
       Avant(today, FinsDeMois[i]) /\ today' = FinsDeMois[i]
  /\ UNCHANGED <<db, reponse, entree, sortie>>

\* A day passes.
AvancerDate ==
  /\ \E i \in 1..(Len(Calendrier) - 1) :
       today = Calendrier[i] /\ today' = Calendrier[i + 1]
  /\ UNCHANGED <<db, reponse, entree, sortie>>

Next ==
  \/ AjouterBien(BienForms, MaxBiens)
  \/ ModifierBien(BienForms, MaxBiens)
  \/ SupprimerBien(MaxBiens)
  \/ AjouterLocataire(LocataireForms, MaxLocataires)
  \/ ModifierLocataire(LocataireForms, MaxLocataires)
  \/ SupprimerLocataire(MaxLocataires)
  \/ AjouterPaiement(PaiementForms, MaxPaiements)
  \/ ModifierPaiement(PaiementForms, MaxPaiements)
  \/ SupprimerPaiement(MaxPaiements)
  \/ Parametres(BailleurForms)

Spec == Init /\ [][Next]_vars

\* ------------------------------------------------------------ claims

\* The two foreign keys.
C1_LocataireVersBien ==
  \A l \in DOMAIN locataires : BienExiste(biens, locataires[l].bien_id)

C1_PaiementVersLocataire ==
  \A p \in DOMAIN paiements :
    /\ paiements[p].locataire_id.k = "num"
    /\ paiements[p].locataire_id.v \in DOMAIN locataires

\* C1: every stored Tenant's bien_id is the id of a stored Property and every
\* stored Payment's locataire_id is the id of a stored Tenant.
C1_IntegriteReferentielle == C1_LocataireVersBien /\ C1_PaiementVersLocataire

\* ------------------------------------------------------------ SpecCascade

\* The forms of SpecCascade: Tenants on both Properties, Payments of both
\* Tenants (of a Tenant that is not there yet, too), and the three deletions.
BienFormsCascade == {BienFormBase}

LocataireFormsCascade ==
  {[LocataireFormBase EXCEPT !.bien_id = b] : b \in {"1", "2"}}

PaiementFormsCascade ==
  {[PaiementFormBase EXCEPT !.locataire_id = l] : l \in {"1", "2"}}

NextCascade ==
  \/ AjouterBien(BienFormsCascade, MaxBiens)
  \/ SupprimerBien(MaxBiens)
  \/ AjouterLocataire(LocataireFormsCascade, MaxLocataires)
  \/ SupprimerLocataire(MaxLocataires)
  \/ AjouterPaiement(PaiementFormsCascade, MaxPaiements)
  \/ SupprimerPaiement(MaxPaiements)

SpecCascade == Init /\ [][NextCascade]_vars

\* The rows that are still there are as they were.
C2_Reste(avant, apres) == \A id \in DOMAIN apres : apres[id] = avant[id]

C2_BienSupprime(id) ==
  /\ DOMAIN biens' = DOMAIN biens \ {id}
  /\ DOMAIN locataires' =
       {l \in DOMAIN locataires : locataires[l].bien_id # Num(id)}
  /\ DOMAIN paiements' =
       {p \in DOMAIN paiements :
          ~\E l \in DOMAIN locataires :
             /\ locataires[l].bien_id = Num(id)
             /\ paiements[p].locataire_id = Num(l)}
  /\ C2_Reste(biens, biens')
  /\ C2_Reste(locataires, locataires')
  /\ C2_Reste(paiements, paiements')
  /\ bailleurs' = bailleurs

C2_LocataireSupprime(id) ==
  /\ DOMAIN locataires' = DOMAIN locataires \ {id}
  /\ DOMAIN paiements' =
       {p \in DOMAIN paiements : paiements[p].locataire_id # Num(id)}
  /\ C2_Reste(locataires, locataires')
  /\ C2_Reste(paiements, paiements')
  /\ biens' = biens
  /\ bailleurs' = bailleurs

\* C2: a successful supprimer_bien removes one Property, exactly the Tenants
\* whose bien_id is that Property and exactly the Payments of those Tenants; a
\* successful supprimer_locataire removes one Tenant and exactly its Payments;
\* every other row is left as it was.
C2_SuppressionEnCascade ==
  [][/\ reponse' = Redirection("Bien supprime avec succes !")
          => \E id \in DOMAIN biens : C2_BienSupprime(id)
     /\ reponse' = Redirection("Locataire supprime avec succes !")
          => \E id \in DOMAIN locataires : C2_LocataireSupprime(id)]_vars

\* A Property was deleted, and a Tenant and a Payment of another Property are
\* still there while the rows of smaller id are gone.
C2_Witness ==
  /\ reponse = Redirection("Bien supprime avec succes !")
  /\ DOMAIN biens = {2}
  /\ DOMAIN locataires = {2}
  /\ DOMAIN paiements = {2}
  /\ paiements[2].locataire_id = Num(2)

\* ------------------------------------------------------------ SpecEchec

\* The forms of SpecEchec: for each table a form that is stored, a second one
\* that changes the stored row, and forms that validation refuses.
BienFormsEchec ==
  {BienFormBase,
   [BienFormBase EXCEPT !.nom = Txt_Blanc],
   [BienFormBase EXCEPT !.charges_mensuelles = "-50"]}

LocataireFormsEchec ==
  {LocataireFormBase,
   [LocataireFormBase EXCEPT !.actif = FALSE],
   [LocataireFormBase EXCEPT !.bien_id = ""],
   [LocataireFormBase EXCEPT !.date_fin_bail = "2023-12-31"]}

PaiementFormsEchec ==
  {PaiementFormBase,
   [PaiementFormBase EXCEPT !.montant = "150"],
   [PaiementFormBase EXCEPT !.montant = "-50"],
   [PaiementFormBase EXCEPT !.mois_concerne = Txt_Blanc]}

NextEchec ==
  \/ AjouterBien(BienFormsEchec, MaxBiens)
  \/ ModifierBien(BienFormsEchec, MaxBiens)
  \/ SupprimerBien(MaxBiens)
  \/ AjouterLocataire(LocataireFormsEchec, MaxChamps)
  \/ ModifierLocataire(LocataireFormsEchec, MaxChamps)
  \/ AjouterPaiement(PaiementFormsEchec, MaxChamps)
  \/ ModifierPaiement(PaiementFormsEchec, MaxChamps)
  \/ Parametres(BailleurForms)

SpecEchec == Init /\ [][NextEchec]_vars

\* The validation messages and the commit-failure message.
C8_MessagesEchec ==
  {MsgBienNom, MsgBienAdresse, MsgBienCharges, MsgBienRequis,
   MsgBienIntrouvable, MsgRaisonSociale, MsgSiretRequis, MsgSiretFormat,
   MsgNomPrenom, MsgDateDebut, MsgLoyer, MsgDepot, MsgJour, MsgDateFin,
   MsgLocataireRequis, MsgMontant, MsgDatePaiement, MsgMois, MsgErreur}

\* C8: a create or update request answered with a validation message or with
\* the commit-failure message leaves the four tables as they were.
C8_EchecSansEcriture ==
  [][reponse'.flash \in C8_MessagesEchec => db' = db]_vars

\* The commit of a request failed while the three tables held rows.
C8_Witness ==
  /\ reponse = Rendu(MsgErreur)
  /\ DOMAIN locataires # {}
  /\ DOMAIN paiements # {}
  /\ DOMAIN bailleurs # {}

\* ------------------------------------------------------------ SpecChamps

\* The forms of SpecChamps: the field values vary (SIRET, amounts) on both
\* kinds of Property.
BienFormsChamps ==
  {[BienFormBase EXCEPT !.type_bien = "local_commercial"]}
    \cup {[BienFormBase EXCEPT !.charges_mensuelles = c] :
            c \in {"", "nan", "-50"}}

LocataireFormsChamps ==
  {[f EXCEPT !.bien_id = b] :
     b \in {"1", "2"},
     f \in {LocataireFormBase,
            [LocataireFormBase EXCEPT !.siret = Siret_13],
            [LocataireFormBase EXCEPT !.siret = Siret_14x],
            [LocataireFormBase EXCEPT !.siret = Txt_Blanc,
                                      !.raison_sociale = Txt_Vide],
            [LocataireFormBase EXCEPT !.depot_garantie = "nan"],
            [LocataireFormBase EXCEPT !.depot_garantie = "-50"],
            [LocataireFormBase EXCEPT !.loyer_mensuel = "nan"],
            [LocataireFormBase EXCEPT !.loyer_mensuel = "-50"],
            [LocataireFormBase EXCEPT !.loyer_mensuel = "0"]}}

PaiementFormsChamps ==
  {[PaiementFormBase EXCEPT !.montant = m] :
     m \in {"", "nan", "-50", "0", "50", "150"}}

NextChamps ==
  \/ AjouterBien(BienFormsChamps, MaxBiens)
  \/ ModifierBien(BienFormsChamps, MaxBiens)
  \/ SupprimerBien(MaxBiens)
  \/ AjouterLocataire(LocataireFormsChamps, MaxChamps)
  \/ ModifierLocataire(LocataireFormsChamps, MaxChamps)
  \/ AjouterPaiement(PaiementFormsChamps, MaxChamps)
  \/ ModifierPaiement(PaiementFormsChamps, MaxChamps)

SpecChamps == Init /\ [][NextChamps]_vars

\* C4: every stored Tenant whose SIRET is present has a SIRET of exactly 14
\* digits, whatever the type of its Property.
C4_SiretQuatorzeChiffres ==
  \A l \in DOMAIN locataires :
    locataires[l].siret # <<>> =>
      /\ Len(locataires[l].siret[1]) = 14
      /\ IsDigit(locataires[l].siret[1])

\* A number that is there and >= 0.
C6_Positif(x) == x.k = "num" /\ x.v >= 0

\* C6: every stored Payment has an amount > 0, every stored Property has
\* charges >= 0, every stored Tenant has a rent >= 0 and a deposit >= 0.
C6_MontantsDansLesBornes ==
  /\ \A p \in DOMAIN paiements :
       paiements[p].montant.k = "num" /\ paiements[p].montant.v > 0
  /\ \A b \in DOMAIN biens : C6_Positif(biens[b].charges_mensuelles)
  /\ \A l \in DOMAIN locataires :
       /\ C6_Positif(locataires[l].loyer_mensuel)
       /\ C6_Positif(locataires[l].depot_garantie)

\* ------------------------------------------------------------ SpecBail

\* The forms of SpecBail: tenant creation and tenant update with every pair of
\* a lease start (one of them unreadable) and a lease end.
LocataireFormsBail ==
  {[LocataireFormBase EXCEPT !.bien_id = b, !.date_debut_bail = d,
                             !.date_fin_bail = f] :
     b \in {"1", "2"},
     d \in {"2024-01-01", "2024-06-30", "30/06/2024"},
     f \in {"", "2023-12-31", "2024-01-01", "2024-06-30"}}

NextBail ==
  \/ AjouterLocataire(LocataireFormsBail, MaxLocataires)
  \/ ModifierLocataire(LocataireFormsBail, MaxLocataires)

SpecBail == Init /\ [][NextBail]_vars

\* C7: every stored Tenant with a lease end date has it on or after its lease
\* start date.
C7_FinApresDebut ==
  \A l \in DOMAIN locataires :
    ~IsNone(locataires[l].date_fin_bail) =>
      /\ locataires[l].date_debut_bail.k = "num"
      /\ locataires[l].date_fin_bail.k = "num"
      /\ locataires[l].date_fin_bail.v >= locataires[l].date_debut_bail.v

\* A Tenant was stored by modifier_locataire with a lease end date after the
\* start date.
C7_Witness ==
  /\ reponse = Redirection("Locataire modifie avec succes !")
  /\ \E l \in DOMAIN locataires :
       /\ locataires[l].date_debut_bail = Num(1)
       /\ locataires[l].date_fin_bail = Num(182)

\* ------------------------------------------------------------ SpecValidation

\* The validators on their own: Init draws a submitted form, the action parses
\* and validates it against the init_db rows (Property 1 an apartment, Property
\* 2 commercial premises, no Property 3).
LocataireFormsTous ==
  [nom : {Txt_Blanc, Txt_Dupont},
   prenom : {Txt_Vide, Txt_Jean},
   raison_sociale : {Txt_Vide, Txt_ACME},
   siret : {Txt_Vide, Siret_13, Siret_14x, Siret_14},
   bien_id : {"", "0", "1", "2", "3"},
   date_debut_bail : {"", "2024-01-01"},
   date_fin_bail : {"", "2023-12-31", "2024-06-30"},
   loyer_mensuel : {"", "nan", "-50", "800"},
   depot_garantie : {"", "nan", "-50"},
   jour_paiement : {"", "0", "5", "29"},
   actif : {TRUE}]

PaiementFormsTous ==
  [locataire_id : {"", "0", "1", "3"},
   montant : {"", "abc", "nan", "-50", "0", "50"},
   date_paiement : {"", "31/12/2024", "2024-01-01"},
   mois_concerne : {Txt_Vide, <<"2", "0", "2", "4">>, Tok_2024_03},
   categorie : {"loyer", "taxe_fonciere"}]

InitValidation ==
  /\ biens = DemoBiens
  /\ locataires = EmptyTable
  /\ paiements = EmptyTable
  /\ bailleurs = EmptyTable
  /\ today = Calendrier[1]
  /\ reponse = Rendu("")
  /\ sortie = NoResult
  /\ \/ \E f \in LocataireFormsTous :
          entree = [fonction |-> "_validate_locataire_data", form |-> f]
     \/ \E f \in PaiementFormsTous :
          entree = [fonction |-> "_validate_paiement_data", form |-> f]

ValiderLocataire ==
  /\ entree.fonction = "_validate_locataire_data"
  /\ ~sortie.fait
  /\ sortie' =
       [fait |-> TRUE,
        erreur |->
          _validate_locataire_data(_parse_locataire_form(entree.form), biens)]
  /\ UNCHANGED <<db, today, reponse, entree>>

ValiderPaiement ==
  /\ entree.fonction = "_validate_paiement_data"
  /\ ~sortie.fait
  /\ sortie' =
       [fait |-> TRUE,
        erreur |-> _validate_paiement_data(_parse_paiement_form(entree.form))]
  /\ UNCHANGED <<db, today, reponse, entree>>

NextValidation == ValiderLocataire \/ ValiderPaiement

SpecValidation == InitValidation /\ [][NextValidation]_vars

\* The message of the first rule of a list that does not hold: rules is a
\* sequence of <<holds, message>>.
RECURSIVE PremiereRegleViolee(_)
PremiereRegleViolee(rules) ==
  IF rules = <<>> THEN <<>>
  ELSE IF ~Head(rules)[1] THEN <<Head(rules)[2]>>
  ELSE PremiereRegleViolee(Tail(rules))

\* x >= 0 and x > 0 of a number that is there; NaN is neither.
AuMoinsZero(x) == x.k = "num" /\ x.v >= 0

PlusQueZero(x) == x.k = "num" /\ x.v > 0

\* The rules of tenant validation as the specification lists them.
C3_Regles(data, table) ==
  LET existe == ~Falsy(data.bien_id) /\ BienExiste(table, data.bien_id)
      commercial ==
        existe /\ table[data.bien_id.v].type_bien = "local_commercial"
      particulier == existe /\ ~commercial
  IN <<
       <<~Falsy(data.bien_id), MsgBienRequis>>,
       <<existe, MsgBienIntrouvable>>,
       <<commercial => data.raison_sociale # <<>>, MsgRaisonSociale>>,
       <<commercial => data.siret # <<>>, MsgSiretRequis>>,
       <<(commercial /\ data.siret # <<>>) =>
           (Len(data.siret[1]) = 14 /\ IsDigit(data.siret[1])),
         MsgSiretFormat>>,
       <<particulier => (data.nom # <<>> /\ data.prenom # <<>>), MsgNomPrenom>>,
       <<~IsNone(data.date_debut_bail), MsgDateDebut>>,
       <<AuMoinsZero(data.loyer_mensuel), MsgLoyer>>,
       <<IsNone(data.depot_garantie) \/ AuMoinsZero(data.depot_garantie),
         MsgDepot>>,
       <<IsNone(data.jour_paiement)
           \/ (data.jour_paiement.v >= 1 /\ data.jour_paiement.v <= 28),
         MsgJour>>,
       <<(~IsNone(data.date_fin_bail) /\ ~IsNone(data.date_debut_bail)) =>
           data.date_fin_bail.v >= data.date_debut_bail.v,
         MsgDateFin>>
     >>

\* C3: tenant validation returns the message of the first rule, in this order,
\* that does not hold: property id present; property exists; on commercial
\* premises company name non-empty, SIRET non-empty, SIRET of 14 digits, otherwise
\* last and first name non-empty; lease start present; rent present and >= 0;
\* deposit >= 0; payment day in [1,28]; lease end not before lease start.
\* (An id of 0 is no id: rows are numbered from 1.)
C3_PremierMessage ==
  (sortie.fait /\ entree.fonction = "_validate_locataire_data") =>
    sortie.erreur =
      PremiereRegleViolee(C3_Regles(_parse_locataire_form(entree.form), biens))

\* The checks of payment validation as the specification lists them.
C5_Regles(data) ==
  <<
    <<~Falsy(data.locataire_id), MsgLocataireRequis>>,
    <<PlusQueZero(data.montant), MsgMontant>>,
    <<~IsNone(data.date_paiement), MsgDatePaiement>>,
    <<data.mois_concerne # <<>>, MsgMois>>
  >>

\* C5: payment validation returns the message of the first check, in this
\* order, that fails: tenant id present; amount present and > 0; payment date
\* present; concerned-month token non-empty.
C5_PremierMessage ==
  (sortie.fait /\ entree.fonction = "_validate_paiement_data") =>
    sortie.erreur =
      PremiereRegleViolee(C5_Regles(_parse_paiement_form(entree.form)))

\* ------------------------------------------------------------ SpecRetard

\* The step is a rendering of the dashboard.
TableauRendu ==
  /\ reponse'.vue # <<>>
  /\ reponse'.vue[1].page = "index.html"
  /\ UNCHANGED <<db, today>>

\* The forms of SpecRetard: active and inactive Tenants due on the 5th or on
\* the 20th, Payments of two categories for two months, and the days of
\* Calendrier.
LocataireFormsRetard ==
  {[LocataireFormBase EXCEPT !.jour_paiement = j, !.actif = a] :
     j \in {"5", "20"}, a \in BOOLEAN}

PaiementFormsRetard ==
  {[PaiementFormBase EXCEPT !.categorie = "taxe_fonciere"],
   [PaiementFormBase EXCEPT !.locataire_id = "2"],
   [PaiementFormBase EXCEPT !.mois_concerne = Tok_2024_04, !.montant = "150"]}

NextRetard ==
  \/ AjouterLocataire(LocataireFormsRetard, MaxLocataires)
  \/ ModifierLocataire(LocataireFormsRetard, MaxLocataires)
  \/ AjouterPaiement(PaiementFormsRetard, MaxPaiements)
  \/ Index
  \/ AvancerDate

SpecRetard == Init /\ [][NextRetard]_vars

\* A Payment of Tenant l, of any category, is for the current month.
C9_PayeCeMois(l) ==
  \E p \in DOMAIN paiements :
    /\ paiements[p].locataire_id = Num(l)
    /\ paiements[p].mois_concerne = Strftime_Ym(today)

\* C9: on a rendered dashboard, an active Tenant is in the late list exactly
\* when none of its Payments, of any category, has the current month as its
\* concerned-month token and today's day of the month is strictly greater than
\* its payment due day.
C9_ListeDesRetards ==
  [][TableauRendu =>
       \A l \in DOMAIN locataires :
         l \in reponse'.vue[1].loyers_en_retard
           <=> /\ locataires[l].actif
               /\ ~C9_PayeCeMois(l)
               /\ today.jour > locataires[l].jour_paiement.v]_vars

\* The dashboard of the 20th: Tenant 1, due on the 5th, has only a property-tax
\* Payment for the month and is not listed; Tenant 2, due on the 5th and
\* without a Payment, is.
C9_Witness ==
  /\ reponse.vue # <<>>
  /\ today.jour = 20
  /\ reponse.vue[1].mois_actuel = Strftime_Ym(today)
  /\ reponse.vue[1].loyers_en_retard = {2}
  /\ 1 \in reponse.vue[1].locataires_actifs
  /\ locataires[1].jour_paiement = Num(5)
  /\ \A p \in DOMAIN paiements :
       /\ paiements[p].locataire_id = Num(1)
       /\ paiements[p].categorie = "taxe_fonciere"
       /\ paiements[p].mois_concerne = Strftime_Ym(today)
  /\ DOMAIN paiements # {}

\* ------------------------------------------------------------ SpecRevenus

\* The forms of SpecRevenus: active and inactive Tenants of two rents on both
\* Properties, and Properties whose charges become 0 or are stored as NULL.
BienFormsRevenus ==
  {[BienFormBase EXCEPT !.charges_mensuelles = c] : c \in {"0", "nan"}}

LocataireFormsRevenus ==
  {[LocataireFormBase EXCEPT !.bien_id = b, !.loyer_mensuel = l, !.actif = a] :
     b \in {"1", "2"}, l \in {"800", "150"}, a \in BOOLEAN}

NextRevenus ==
  \/ ModifierBien(BienFormsRevenus, MaxBiens)
  \/ AjouterLocataire(LocataireFormsRevenus, MaxLocataires)
  \/ ModifierLocataire(LocataireFormsRevenus, MaxLocataires)
  \/ Index

SpecRevenus == Init /\ [][NextRevenus]_vars

\* The sum of rent plus charges over the Tenants ids.
RECURSIVE C10_Somme(_)
C10_Somme(ids) ==
  IF ids = {} THEN 0
  ELSE LET l == CHOOSE x \in ids : TRUE
       IN locataires[l].loyer_mensuel.v
            + biens[locataires[l].bien_id.v].charges_mensuelles.v
            + C10_Somme(ids \ {l})

\* C10: on a rendered dashboard, the monthly revenue is the sum over the
\* Tenants flagged active, and only those, of the monthly rent plus the monthly
\* charges of the Tenant's Property.
C10_RevenusMensuels ==
  [][TableauRendu =>
       reponse'.vue[1].revenus_mensuels =
         C10_Somme({l \in DOMAIN locataires : locataires[l].actif})]_vars

\* Rent 800 on the Property with charges 150 counts for 950, and the inactive
\* Tenant of the other Property for nothing.
C10_Witness ==
  /\ reponse.vue # <<>>
  /\ reponse.vue[1].revenus_mensuels = 950
  /\ DOMAIN locataires = {1, 2}
  /\ locataires[1].actif /\ locataires[1].bien_id = Num(1)
  /\ locataires[1].loyer_mensuel = Num(800)
  /\ ~locataires[2].actif /\ locataires[2].bien_id = Num(2)
  /\ biens[1].charges_mensuelles = Num(150)

\* ------------------------------------------------------------ SpecSerie

\* The step is a rendering of the statistics page.
StatsRendu ==
  /\ reponse'.vue # <<>>
  /\ reponse'.vue[1].page = "statistiques.html"
  /\ UNCHANGED <<db, today>>

\* The forms of SpecSerie: Payments of two categories and two amounts whose
\* token is the current month, the oldest month of the series, the month before
\* it, a month to come, a month without its leading zero and no month at all.
PaiementFormsSerie ==
  {[PaiementFormBase EXCEPT !.mois_concerne = t, !.categorie = c[1],
                            !.montant = c[2]] :
     t \in {Tok_2024_03, Tok_2023_04, Tok_2023_03, Tok_2024_12, Tok_2024_3,
            Tok_2024},
     c \in {<<"loyer", "50">>, <<"taxe_fonciere", "150">>}}

NextSerie ==
  \/ AjouterPaiement(PaiementFormsSerie, MaxPaiements)
  \/ Statistiques
  \/ AvancerMois

SpecSerie == Init /\ [][NextSerie]_vars

C11_MoisPrecedent(ym) ==
  IF ym.mois = 1 THEN [annee |-> ym.annee - 1, mois |-> 12]
  ELSE [annee |-> ym.annee, mois |-> ym.mois - 1]

\* The calendar month of entry k: the current month for the 12th, and the month
\* before the month of the next entry for the others.
RECURSIVE C11_Mois(_)
C11_Mois(k) ==
  IF k >= 12 THEN [annee |-> today.annee, mois |-> today.mois]
  ELSE C11_MoisPrecedent(C11_Mois(k + 1))

C11_Token(k) == Pad4(C11_Mois(k).annee) \o <<"-">> \o Pad2(C11_Mois(k).mois)

\* The sum of the amounts of the Payments ids.
RECURSIVE C11_Somme(_)
C11_Somme(ids) ==
  IF ids = {} THEN 0
  ELSE LET p == CHOOSE x \in ids : TRUE
       IN paiements[p].montant.v + C11_Somme(ids \ {p})

RECURSIVE C11_SommeDesTotaux(_, _)
C11_SommeDesTotaux(serie, k) ==
  IF k = 0 THEN 0 ELSE serie[k].total + C11_SommeDesTotaux(serie, k - 1)

\* C11: the statistics series has exactly 12 entries, for 12 distinct
\* consecutive calendar months from oldest to newest ending at the current
\* month; the total of an entry is the sum of the amounts of all Payments, of
\* any Tenant and category, whose token is that month (zero without one), and
\* the 12 totals add up to the sum of the Payments whose token is one of the 12
\* months.
C11_SerieDesDouzeMois ==
  [][StatsRendu =>
       LET serie == reponse'.vue[1].revenus_mensuels
       IN /\ Len(serie) = 12
          /\ \A k \in 1..12 :
               /\ serie[k].mois =
                    <<MOIS_NOMS_COURTS[C11_Mois(k).mois + 1], " ">>
                      \o IntStr(C11_Mois(k).annee)
               /\ serie[k].total =
                    C11_Somme({p \in DOMAIN paiements :
                                 paiements[p].mois_concerne = C11_Token(k)})
          /\ \A j, k \in 1..12 : j # k => serie[j].mois # serie[k].mois
          /\ C11_SommeDesTotaux(serie, 12) =
               C11_Somme({p \in DOMAIN paiements :
                            \E k \in 1..12 :
                              paiements[p].mois_concerne = C11_Token(k)})]_vars

\* The statistics of 31 January 2025: the series starts in February 2024, the
\* Payment for March 2024 is in its second entry, the Payment for April 2023 is
\* in none, and the last entry is zero.
C11_Witness ==
  /\ reponse.vue # <<>>
  /\ reponse.vue[1].page = "statistiques.html"
  /\ today = FinsDeMois[3]
  /\ reponse.vue[1].revenus_mensuels[1].mois = <<"Fev", " ", "2", "0", "2", "4">>
  /\ reponse.vue[1].revenus_mensuels[2].total = 150
  /\ reponse.vue[1].revenus_mensuels[12].total = 0
  /\ \E p, q \in DOMAIN paiements :
       /\ paiements[p].mois_concerne = Tok_2024_03
       /\ paiements[p].categorie = "taxe_fonciere"
       /\ paiements[q].mois_concerne = Tok_2023_04

\* ------------------------------------------------------------ SpecTotaux

\* The forms of SpecTotaux: active and inactive Tenants on both Properties, and
\* Payments of two amounts, for two months, of both Tenants.
LocataireFormsTotaux ==
  {[LocataireFormBase EXCEPT !.bien_id = b, !.actif = a] :
     b \in {"1", "2"}, a \in BOOLEAN}

PaiementFormsTotaux ==
  {[PaiementFormBase EXCEPT !.locataire_id = l, !.montant = c[1],
                            !.mois_concerne = c[2]] :
     l \in {"1", "2"},
     c \in {<<"50", Tok_2024_03>>, <<"150", Tok_2023_03>>}}

NextTotaux ==
  \/ AjouterLocataire(LocataireFormsTotaux, MaxLocataires)
  \/ ModifierLocataire(LocataireFormsTotaux, MaxLocataires)
  \/ AjouterPaiement(PaiementFormsTotaux, MaxPaiements)
  \/ Statistiques

SpecTotaux == Init /\ [][NextTotaux]_vars

\* The sum of the amounts of the Payments of Tenant l, of every month and
\* category.
RECURSIVE C12_Somme(_)
C12_Somme(ids) ==
  IF ids = {} THEN 0
  ELSE LET p == CHOOSE x \in ids : TRUE
       IN paiements[p].montant.v + C12_Somme(ids \ {p})

C12_TotalDuLocataire(l) ==
  C12_Somme({p \in DOMAIN paiements : paiements[p].locataire_id = Num(l)})

C12_Actifs(b) ==
  {l \in DOMAIN locataires :
     locataires[l].actif /\ locataires[l].bien_id = Num(b)}

\* C12: on the statistics page, the lifetime total of a Property is the sum of
\* the amounts of all Payments of its current Tenant, who is a Tenant of the
\* Property flagged active (the one the list of its Tenants gives first), and
\* zero when the Property has no active Tenant or that Tenant has no Payment;
\* the Payments of the inactive and of the other Tenants are not counted.
C12_TotalParBien ==
  [][StatsRendu =>
       \A b \in DOMAIN biens :
         LET stat == reponse'.vue[1].biens_stats[b]
         IN IF C12_Actifs(b) = {}
            THEN stat.locataire = 0 /\ stat.total_percu = 0
            ELSE /\ stat.locataire \in C12_Actifs(b)
                 /\ stat.total_percu = C12_TotalDuLocataire(stat.locataire)]_vars

\* Property 1 has the inactive Tenant 1, who paid 50, and the active Tenant 2,
\* who paid 150 for a month of the year before: its total is 150, and the total
\* of Property 2, without a Tenant, is 0.
C12_Witness ==
  /\ reponse.vue # <<>>
  /\ reponse.vue[1].page = "statistiques.html"
  /\ DOMAIN locataires = {1, 2}
  /\ ~locataires[1].actif /\ locataires[1].bien_id = Num(1)
  /\ locataires[2].actif /\ locataires[2].bien_id = Num(1)
  /\ DOMAIN paiements = {1, 2}
  /\ paiements[1].locataire_id = Num(1) /\ paiements[1].montant = Num(50)
  /\ paiements[2].locataire_id = Num(2) /\ paiements[2].montant = Num(150)
  /\ paiements[2].mois_concerne = Tok_2023_03
  /\ reponse.vue[1].biens_stats[1] = [locataire |-> 2, total_percu |-> 150]
  /\ reponse.vue[1].biens_stats[2] = [locataire |-> 0, total_percu |-> 0]

\* ------------------------------------------------------------ SpecFormat

\* The month tokens of the receipt requests of SpecFormat.
TokensFormat ==
  {Tok_2024_03, Tok_2024_12, Tok_2024_3, Tok_2024, Tok_2024_13, Tok_2024_00,
   Tok_2024_03_05, Tok_2024_xx, Tok_xx_03, Tok_2024_vide, Tok_vide_03,
   Tok_signe, Tok_souligne, Tok_souligne_fin}

NextFormat ==
  \/ AjouterLocataire(LocataireFormsTotaux, MaxLocataires)
  \/ GenererQuittance(TokensFormat, MaxLocataires)

SpecFormat == Init /\ [][NextFormat]_vars

\* The step serves the receipt request entree'.
QuittanceDemandee ==
  /\ ~sortie.fait
  /\ sortie'.fait
  /\ entree'.fonction = "generer_quittance"

\* s reads as an integer: between blanks, an optional sign, then digits, where
\* an underscore may stand between two digits.
C13_EstEntier(s) ==
  \E lo, hi \in 1..Len(s) :
    /\ \A i \in 1..Len(s) : (i < lo \/ i > hi) => s[i] = " "
    /\ s[lo] # " " /\ s[hi] # " "
    /\ LET debut == IF s[lo] \in {"+", "-"} THEN lo + 1 ELSE lo
       IN /\ debut <= hi
          /\ \A i \in debut..hi :
               \/ s[i] \in Digits
               \/ /\ s[i] = "_"
                  /\ debut < i /\ i < hi
                  /\ s[i - 1] \in Digits /\ s[i + 1] \in Digits

\* The digits of s, in order.
C13_Chiffres(s) == SelectSeq(s, LAMBDA c : c \in Digits)

\* The number the digits of s write, with the sign of s.
RECURSIVE C13_Nombre(_, _)
C13_Nombre(chiffres, acc) ==
  IF chiffres = <<>> THEN acc
  ELSE C13_Nombre(Tail(chiffres),
                  10 * acc + (CHOOSE d \in 0..9 : DigitChar[d + 1] = Head(chiffres)))

C13_Valeur(s) ==
  IF \E i \in 1..Len(s) : s[i] = "-" THEN 0 - C13_Nombre(C13_Chiffres(s), 0)
  ELSE C13_Nombre(C13_Chiffres(s), 0)

\* The token is two parts around one '-', the first an integer and the second
\* an integer from 1 to 12.
C13_BienForme(m) ==
  \E i \in 1..Len(m) :
    /\ m[i] = "-"
    /\ \A j \in 1..Len(m) : m[j] = "-" => j = i
    /\ C13_EstEntier(SubSeq(m, 1, i - 1))
    /\ C13_EstEntier(SubSeq(m, i + 1, Len(m)))
    /\ C13_Valeur(SubSeq(m, i + 1, Len(m))) \in 1..12

\* C13: a receipt request for a Tenant that is there is answered with the
\* format error, and without a receipt, exactly when the month token is not
\* two '-'-separated parts of which the first reads as an integer and the
\* second as an integer from 1 to 12; otherwise it is answered with a receipt
\* whose year is the first part and whose month name is the name of the month
\* number.
C13_FormatDuMois ==
  [][(QuittanceDemandee /\ entree'.form.locataire_id \in DOMAIN locataires) =>
       LET m == entree'.form.mois
       IN IF ~C13_BienForme(m)
          THEN reponse' = Redirection(MsgFormatMois)
          ELSE /\ reponse'.vue # <<>>
               /\ reponse'.vue[1].page = "quittances/quittance.html"
               /\ \E i \in 1..Len(m) :
                    /\ m[i] = "-"
                    /\ reponse'.vue[1].annee = SubSeq(m, 1, i - 1)
                    /\ reponse'.vue[1].mois_nom =
                         MOIS_NOMS[C13_Valeur(SubSeq(m, i + 1, Len(m))) + 1]]_vars

\* The receipt of token "2024-03" says "Mars" and "2024".
C13_Witness ==
  /\ sortie.fait
  /\ entree.fonction = "generer_quittance"
  /\ entree.form.mois = Tok_2024_03
  /\ reponse.vue # <<>>
  /\ reponse.vue[1].mois_nom = "Mars"
  /\ reponse.vue[1].annee = <<"2", "0", "2", "4">>

\* The request of token "2024-13" is answered with the format error.
C13_WitnessErreur ==
  /\ sortie.fait
  /\ entree.fonction = "generer_quittance"
  /\ entree.form.mois = Tok_2024_13
  /\ entree.form.locataire_id \in DOMAIN locataires
  /\ reponse = Redirection(MsgFormatMois)

\* ------------------------------------------------------------ SpecQuittance

\* The forms of SpecQuittance: Payments of two Tenants, of two categories and
\* amounts, for March 2024 written with and without the leading zero.
LocataireFormsQuittance == {LocataireFormBase}

PaiementFormsQuittance ==
  {[PaiementFormBase EXCEPT !.locataire_id = l, !.mois_concerne = t,
                            !.categorie = c[1], !.montant = c[2]] :
     l \in {"1", "2"},
     t \in {Tok_2024_03, Tok_2024_3},
     c \in {<<"loyer", "50">>, <<"taxe_fonciere", "150">>}}

TokensQuittance == {Tok_2024_03, Tok_2024_3}

NextQuittance ==
  \/ AjouterLocataire(LocataireFormsQuittance, MaxLocataires)
  \/ AjouterPaiement(PaiementFormsQuittance, MaxPaiements)
  \/ GenererQuittance(TokensQuittance, MaxLocataires)

SpecQuittance == Init /\ [][NextQuittance]_vars

\* The step serves the receipt request entree' with a receipt.
QuittanceRendue ==
  /\ QuittanceDemandee
  /\ reponse'.vue # <<>>
  /\ reponse'.vue[1].page = "quittances/quittance.html"

RECURSIVE C14_Somme(_)
C14_Somme(ids) ==
  IF ids = {} THEN 0
  ELSE LET p == CHOOSE x \in ids : TRUE
       IN paiements[p].montant.v + C14_Somme(ids \ {p})

\* The sum over the categories cats of the sums of the groups.
RECURSIVE C14_SommeDesGroupes(_, _)
C14_SommeDesGroupes(groupes, cats) ==
  IF cats = {} THEN 0
  ELSE LET c == CHOOSE x \in cats : TRUE
       IN C14_Somme(groupes[c]) + C14_SommeDesGroupes(groupes, cats \ {c})

\* C14: the receipt of Tenant t and token m holds exactly the stored Payments
\* of t whose token is the string m; its groups are a partition of them by
\* category, each Payment under its own category; and its total is the sum of
\* their amounts, which is the sum of the sums of the groups.
C14_ContenuDeLaQuittance ==
  [][QuittanceRendue =>
       LET t == entree'.form.locataire_id
           m == entree'.form.mois
           vue == reponse'.vue[1]
           groupes == vue.paiements_par_categorie
       IN /\ vue.paiements =
               {p \in DOMAIN paiements :
                  /\ paiements[p].locataire_id = Num(t)
                  /\ paiements[p].mois_concerne = m}
          /\ \A p \in vue.paiements :
               /\ paiements[p].categorie \in DOMAIN groupes
               /\ \A c \in DOMAIN groupes :
                    p \in groupes[c] <=> c = paiements[p].categorie
          /\ \A c \in DOMAIN groupes :
               groupes[c] # {} /\ groupes[c] \subseteq vue.paiements
          /\ vue.total_paiements = C14_Somme(vue.paiements)
          /\ vue.total_paiements =
               C14_SommeDesGroupes(groupes, DOMAIN groupes)]_vars

\* The receipt of Tenant 1 for "2024-03" holds the rent of 50 and leaves out
\* the property tax of 150 stored for "2024-3".
C14_Witness ==
  /\ sortie.fait
  /\ entree.fonction = "generer_quittance"
  /\ entree.form = [locataire_id |-> 1, mois |-> Tok_2024_03]
  /\ reponse.vue # <<>>
  /\ DOMAIN paiements = {1, 2}
  /\ paiements[1].locataire_id = Num(1) /\ paiements[2].locataire_id = Num(1)
  /\ paiements[1].mois_concerne = Tok_2024_03
  /\ paiements[2].mois_concerne = Tok_2024_3
  /\ paiements[2].categorie = "taxe_fonciere"
  /\ reponse.vue[1].paiements = {1}
  /\ DOMAIN reponse.vue[1].paiements_par_categorie = {"loyer"}
  /\ reponse.vue[1].total_paiements = 50

\* The receipt of two Payments of two categories: two groups, and a total of
\* 200.
C14_WitnessGroupes ==
  /\ sortie.fait
  /\ reponse.vue # <<>>
  /\ reponse.vue[1].page = "quittances/quittance.html"
  /\ reponse.vue[1].paiements = {1, 2}
  /\ DOMAIN reponse.vue[1].paiements_par_categorie = {"loyer", "taxe_fonciere"}
  /\ reponse.vue[1].total_paiements = 200

\* ------------------------------------------------------------ SpecMois

\* The forms of SpecMois: payment creation and payment update with tokens that
\* are a month, that are none, that are blank and that are empty; the receipt
\* requests are for the tokens of the forms that the route takes.
TokensMois ==
  {Tok_2024_03, Tok_2024_12, Tok_2024, Tok_2024_13, Tok_2024_3, Tok_slash,
   Txt_Blanc, Txt_Vide}

PaiementFormsMois ==
  {[PaiementFormBase EXCEPT !.mois_concerne = t] : t \in TokensMois}

NextMois ==
  \/ AjouterPaiement(PaiementFormsMois, MaxPaiements)
  \/ ModifierPaiement(PaiementFormsMois, MaxPaiements)
  \/ AjouterLocataire(LocataireFormsQuittance, MaxChamps)
  \/ GenererQuittance(TokensMois, MaxChamps)

SpecMois == Init /\ [][NextMois]_vars

\* m is YYYY-MM: four digits, '-', and two digits that write 01 to 12.
C15_MotifAAAAMM(m) ==
  /\ Len(m) = 7
  /\ m[5] = "-"
  /\ \A i \in {1, 2, 3, 4, 6, 7} : m[i] \in Digits
  /\ \/ m[6] = "0" /\ m[7] # "0"
     \/ m[6] = "1" /\ m[7] \in {"0", "1", "2"}

\* C15: every stored Payment has a concerned-month token of the pattern
\* YYYY-MM with a month from 01 to 12, so that the receipt of its Tenant for
\* its token is not refused with the format error.
C15_MoisConcerneValide ==
  \A p \in DOMAIN paiements :
    /\ C15_MotifAAAAMM(paiements[p].mois_concerne)
    /\ ParseMois(paiements[p].mois_concerne) # <<>>

\* The receipt of a stored Payment, asked for its Tenant and its token, was
\* refused with the format error.
C15_QuittanceRefusee ==
  /\ sortie.fait
  /\ entree.fonction = "generer_quittance"
  /\ reponse = Redirection(MsgFormatMois)
  /\ \E p \in DOMAIN paiements :
       /\ paiements[p].locataire_id = Num(entree.form.locataire_id)
       /\ paiements[p].mois_concerne = entree.form.mois
       /\ entree.form.locataire_id \in DOMAIN locataires

\* ------------------------------------------------------------ SpecParametres

\* The forms of SpecParametres: names and addresses that are text, text between
\* blanks, blank and empty, and cities that are text, text between blanks and
\* empty.
BailleurFormsTous ==
  [nom : {Txt_Dupont, Txt_Jean, Txt_Blanc, Txt_Vide},
   adresse : {Txt_Adresse, <<" ", "2", " ">>, Txt_Blanc, Txt_Vide},
   ville : {<<"P", "a", "u">>, <<" ", "P", "a", "u">>, Txt_Vide}]

NextParametres == SoumettreParametres(BailleurFormsTous)

SpecParametres == Init /\ [][NextParametres]_vars

\* s without the blanks around it.
C16_SansBlancs(s) ==
  IF \A i \in 1..Len(s) : s[i] = " " THEN <<>>
  ELSE LET lo == CHOOSE i \in 1..Len(s) :
                   s[i] # " " /\ \A j \in 1..(i - 1) : s[j] = " "
           hi == CHOOSE i \in 1..Len(s) :
                   s[i] # " " /\ \A j \in (i + 1)..Len(s) : s[j] = " "
       IN SubSeq(s, lo, hi)

\* C16: along any sequence of settings submissions from an empty Landlord
\* table there is at most one Landlord row; a submission that is saved creates
\* the row when there is none and otherwise overwrites the fields of the row
\* that is there; a valid submission is saved unless its commit fails; and a
\* submission with an empty name or address, or whose commit fails, changes
\* nothing.
C16_CreerOuModifier ==
  [][entree'.fonction = "parametres" =>
       LET form == entree'.form
           valide ==
             C16_SansBlancs(form.nom) # <<>> /\ C16_SansBlancs(form.adresse) # <<>>
           soumis ==
             [nom |-> C16_SansBlancs(form.nom),
              adresse |-> C16_SansBlancs(form.adresse),
              ville |-> form.ville]
       IN /\ Cardinality(DOMAIN bailleurs') <= 1
          /\ IF reponse' = Redirection("Parametres enregistres avec succes !")
             THEN /\ valide
                  /\ Cardinality(DOMAIN bailleurs') = 1
                  /\ DOMAIN bailleurs # {} => DOMAIN bailleurs' = DOMAIN bailleurs
                  /\ \A id \in DOMAIN bailleurs' : bailleurs'[id] = soumis
             ELSE bailleurs' = bailleurs
          /\ valide =>
               reponse' \in {Redirection("Parametres enregistres avec succes !"),
                             Rendu(MsgParametresErreur)}
          /\ ~valide => reponse' = Rendu(MsgParametresRequis)
          /\ UNCHANGED <<biens, locataires, paiements>>]_vars

\* A submission without a name was refused while the one Landlord row, saved
\* from a name and a city between blanks, stays as it was.
C16_Witness ==
  /\ entree.fonction = "parametres"
  /\ entree.form.nom = Txt_Vide
  /\ reponse = Rendu(MsgParametresRequis)
  /\ DOMAIN bailleurs = {1}
  /\ bailleurs[1] = [nom |-> <<"J", "e", "a", "n">>,
                     adresse |-> <<"2">>,
                     ville |-> <<" ", "P", "a", "u">>]

====
